---- MODULE Spec2Model ----
(***************************************************************************)
(* Model of the iptv-filter repository: the playlist filter                *)
(* (src/filter_us_iptv.py) and the channel matcher                         *)
(* (src/generate_channels_xml.py).                                         *)
(*                                                                         *)
(* Strings are sequences of one-character strings, so that trimming,       *)
(* lowercasing, splitting, substring search and the regular expressions    *)
(* of the source are computed rather than assumed.                         *)
(***************************************************************************)
EXTENDS Integers, Sequences, FiniteSets, TLC

VARIABLES
    pc,            \* position of the running script
    ENGLISH_ONLY,  \* filter_us_iptv.py: module flag
    allow_file,    \* text lines of the allowlist file
    deny_file,     \* text lines of the denylist file
    allow_rules,   \* read_rules(allow)
    deny_rules,    \* read_rules(deny)
    items,         \* list of playlist entries handed to a stage
    filtered,      \* result of the stage(s) applied so far
    dedup_key,     \* --dedup argument
    m3u_text,      \* playlist text (characters, lines separated by "\n")
    lines,         \* tokenize_m3u: the non-blank lines
    i,             \* tokenize_m3u: outer index (0-based, as in the source)
    j,             \* tokenize_m3u: inner index (0-based)
    tok_items,     \* tokenize_m3u: items
    lastRead,      \* tokenize_m3u: largest 0-based index read from lines (-1: none)
    iters,         \* tokenize_m3u: iterations of the outer loop so far
    m3u_ok,        \* matcher: the playlist path is a file
    m3u_lines,     \* matcher: lines of the playlist file
    dir_ok,        \* matcher: the EPG path is a directory
    catalogs,      \* matcher: the *.channels.xml files found, in glob order
    tvg_ids,       \* matcher: read_tvg_ids_from_m3u result
    fidx,          \* matcher: number of catalog files scanned by collect_matches
    out_lines,     \* matcher: collect_matches lines
    found_ids,     \* matcher: collect_matches found_ids
    not_found,     \* matcher: collect_matches not_found
    written,       \* matcher: the contents written to the output file, in order
    exit_code      \* matcher: process exit status (Running while it runs)

vars == <<pc, ENGLISH_ONLY, allow_file, deny_file, allow_rules, deny_rules,
          items, filtered, dedup_key, m3u_text, lines, i, j, tok_items,
          lastRead, iters, m3u_ok, m3u_lines, dir_ok, catalogs, tvg_ids,
          fidx, out_lines, found_ids, not_found, written, exit_code>>

filterVars == <<ENGLISH_ONLY, allow_file, deny_file, allow_rules, deny_rules,
                items, filtered, dedup_key>>
tokVars == <<m3u_text, lines, i, j, tok_items, lastRead, iters>>
matchVars == <<m3u_ok, m3u_lines, dir_ok, catalogs, tvg_ids, fidx, out_lines,
               found_ids, not_found, written, exit_code>>

\* exit_code while the process has not exited (otherwise {code})
Running == {}

(***************************************************************************)
(* Characters and strings                                                  *)
(***************************************************************************)
UpperChars == <<"A","B","C","D","E","F","G","H","I","J","K","L","M",
                "N","O","P","Q","R","S","T","U","V","W","X","Y","Z">>
LowerChars == <<"a","b","c","d","e","f","g","h","i","j","k","l","m",
                "n","o","p","q","r","s","t","u","v","w","x","y","z">>
Digits == {"0","1","2","3","4","5","6","7","8","9"}

Range(s) == {s[k] : k \in DOMAIN s}

IsUpper(c) == c \in Range(UpperChars)
IsLower(c) == c \in Range(LowerChars)

\* str.lower() on one character
LowerChar(c) ==
    IF IsUpper(c)
    THEN LowerChars[CHOOSE k \in DOMAIN UpperChars : UpperChars[k] = c]
    ELSE c

\* str.lower()
Lower(s) == [k \in DOMAIN s |-> LowerChar(s[k])]

\* the characters str.strip() removes and \s matches
IsSpace(c) == c \in {" ", "\t", "\n", "\r"}

\* number of leading whitespace characters of s
RECURSIVE LeadSpaces(_)
LeadSpaces(s) ==
    IF s = <<>> \/ ~IsSpace(Head(s)) THEN 0 ELSE 1 + LeadSpaces(Tail(s))

\* number of trailing whitespace characters of s
RECURSIVE TrailSpaces(_)
TrailSpaces(s) ==
    IF s = <<>> \/ ~IsSpace(s[Len(s)]) THEN 0
    ELSE 1 + TrailSpaces(SubSeq(s, 1, Len(s) - 1))

\* str.strip()
Strip(s) ==
    IF LeadSpaces(s) = Len(s) THEN <<>>
    ELSE SubSeq(s, LeadSpaces(s) + 1, Len(s) - TrailSpaces(s))

\* prefix.startswith / endswith
StartsWith(s, p) == Len(s) >= Len(p) /\ SubSeq(s, 1, Len(p)) = p
EndsWith(s, p) == Len(s) >= Len(p) /\ SubSeq(s, Len(s) - Len(p) + 1, Len(s)) = p

\* Python's  needle in hay
Contains(hay, needle) ==
    \E k \in 0..(Len(hay) - Len(needle)) :
        SubSeq(hay, k + 1, k + Len(needle)) = needle

\* sep.join(parts)
RECURSIVE Join(_, _)
Join(parts, sep) ==
    IF parts = <<>> THEN <<>>
    ELSE IF Len(parts) = 1 THEN parts[1]
    ELSE parts[1] \o sep \o Join(Tail(parts), sep)

\* re.split on a character class: the pieces between separator characters
RECURSIVE SplitOn(_, _)
SplitOn(s, seps) ==
    IF \A k \in DOMAIN s : s[k] \notin seps THEN <<s>>
    ELSE LET p == CHOOSE k \in DOMAIN s :
                      s[k] \in seps /\ \A m \in 1..(k - 1) : s[m] \notin seps
         IN <<SubSeq(s, 1, p - 1)>> \o SplitOn(SubSeq(s, p + 1, Len(s)), seps)

\* dict.get(key, "")
Get(attrs, key) == IF key \in DOMAIN attrs THEN attrs[key] ELSE <<>>

\* Python's  a or b  on strings
Or(a, b) == IF a # <<>> THEN a ELSE b

\* attribute names
TVG_ID == <<"t","v","g","-","i","d">>
TVG_NAME == <<"t","v","g","-","n","a","m","e">>
TVG_CHNO == <<"t","v","g","-","c","h","n","o">>
TVG_LANGUAGE == <<"t","v","g","-","l","a","n","g","u","a","g","e">>
TVG_COUNTRY == <<"t","v","g","-","c","o","u","n","t","r","y">>
GROUP_TITLE == <<"g","r","o","u","p","-","t","i","t","l","e">>
TVG_LOGO == <<"t","v","g","-","l","o","g","o">>
DISPLAY == <<"d","i","s","p","l","a","y">>
NONE == <<"n","o","n","e">>

NoAttrs == [a \in {} |-> <<>>]
Item(a, d, u) == [attrs |-> a, display |-> d, url |-> u]

(***************************************************************************)
(* filter_us_iptv.py: norm, lang_ok                                        *)
(***************************************************************************)
ALLOWED_LANGS == { <<"e","n">>, <<"e","n","g">>, <<"e","n","g","l","i","s","h">> }

norm(s) == Lower(Strip(s))

LangSeps == {";", ",", "/", "|"}

lang_ok(item, english_only) ==
    IF ~english_only THEN TRUE
    ELSE LET val == Get(item.attrs, TVG_LANGUAGE)
             pieces == SplitOn(val, LangSeps)
             parts == {norm(pieces[k]) : k \in {m \in DOMAIN pieces : Strip(pieces[m]) # <<>>}}
         IN (\E p \in parts : p \in ALLOWED_LANGS) \/ val = <<>>

(***************************************************************************)
(* filter_us_iptv.py: read_rules, parse_rule, item_matches, apply_lists    *)
(***************************************************************************)
\* read_rules: a missing file gives no rules; blank lines and lines that
\* start with "#" (after stripping) are ignored, the others are stripped
RECURSIVE ReadLoop(_)
ReadLoop(ls) ==
    IF ls = <<>> THEN <<>>
    ELSE LET s == Strip(Head(ls))
         IN IF s # <<>> /\ ~StartsWith(s, <<"#">>)
            THEN <<s>> \o ReadLoop(Tail(ls))
            ELSE ReadLoop(Tail(ls))

read_rules(file) == IF ~file.exists THEN <<>> ELSE ReadLoop(file.ls)

\* the character class [A-Za-z0-9\-]
IsKeyChar(c) == IsUpper(c) \/ IsLower(c) \/ c \in Digits \/ c = "-"

\* length of the longest run of [A-Za-z0-9\-] that starts at 1-based position p
RECURSIVE KeyRun(_, _)
KeyRun(s, p) ==
    IF p > Len(s) \/ ~IsKeyChar(s[p]) THEN 0 ELSE 1 + KeyRun(s, p + 1)

\* re.match(r'^([A-Za-z0-9\-]+)=(.+)$', rule)
IsExactRule(rule) ==
    LET n == KeyRun(rule, 1)
    IN n >= 1 /\ Len(rule) >= n + 2 /\ rule[n + 1] = "="

\* re.match(r'^([A-Za-z0-9\-]+)~/(.+)/$', rule)
IsRegexRule(rule) ==
    LET n == KeyRun(rule, 1)
    IN n >= 1 /\ Len(rule) >= n + 4 /\ rule[n + 1] = "~" /\ rule[n + 2] = "/"
       /\ rule[Len(rule)] = "/"

parse_rule(rule) ==
    LET n == KeyRun(rule, 1)
    IN IF IsExactRule(rule)
       THEN [mode |-> "attr_exact", attr |-> Lower(SubSeq(rule, 1, n)),
             pat |-> SubSeq(rule, n + 2, Len(rule))]
       ELSE IF IsRegexRule(rule)
       THEN [mode |-> "attr_regex", attr |-> Lower(SubSeq(rule, 1, n)),
             pat |-> SubSeq(rule, n + 3, Len(rule) - 1)]
       ELSE [mode |-> "any_substr", attr |-> <<>>, pat |-> rule]

\* re.search(pat, val, re.I) for the patterns the model draws: literal
\* characters, an optional leading "^", an optional trailing "$", and "(",
\* which without its ")" makes re.compile raise re.error
ReError(pat) == "(" \in Range(pat) /\ ")" \notin Range(pat)

ReSearch(pat, val) ==
    LET anchS == pat # <<>> /\ pat[1] = "^"
        p1 == IF anchS THEN Tail(pat) ELSE pat
        anchE == p1 # <<>> /\ p1[Len(p1)] = "$"
        body == Lower(IF anchE THEN SubSeq(p1, 1, Len(p1) - 1) ELSE p1)
        v == Lower(val)
    IN \E k \in 0..(Len(v) - Len(body)) :
          /\ SubSeq(v, k + 1, k + Len(body)) = body
          /\ anchS => k = 0
          /\ anchE => k + Len(body) = Len(v)

Sep == <<" ", "|", "|", " ">>

\* mutant of any_hay: the display name is left out of the haystack
any_hay_no_display(item) ==
    Join(<<Get(item.attrs, TVG_ID), Get(item.attrs, TVG_NAME),
           Get(item.attrs, GROUP_TITLE)>>, Sep)

any_hay(item) ==
    Join(<<Get(item.attrs, TVG_ID), Get(item.attrs, TVG_NAME),
           Get(item.attrs, GROUP_TITLE), item.display>>, Sep)

item_matches(item, parsed_rule) ==
    LET val == IF parsed_rule.attr # DISPLAY
               THEN Get(item.attrs, parsed_rule.attr) ELSE item.display
    IN CASE parsed_rule.mode = "attr_exact" -> norm(val) = norm(parsed_rule.pat)
         [] parsed_rule.mode = "attr_regex" ->
                IF ReError(parsed_rule.pat) THEN FALSE
                ELSE ReSearch(parsed_rule.pat, val)
         [] parsed_rule.mode = "any_substr" ->
                Contains(norm(any_hay(item)), norm(parsed_rule.pat))
         [] OTHER -> FALSE

\* mutant of Passes: an allowlist match exempts the entry from the denylist
PassesAllowWins(it, english_only, allow_parsed, deny_parsed) ==
    /\ lang_ok(it, english_only)
    /\ \/ allow_parsed # <<>>
          /\ \E k \in DOMAIN allow_parsed : item_matches(it, allow_parsed[k])
       \/ allow_parsed = <<>>
          /\ ~(\E k \in DOMAIN deny_parsed : item_matches(it, deny_parsed[k]))

\* one iteration of the loop of apply_lists: TRUE when the item is appended
Passes(it, english_only, allow_parsed, deny_parsed) ==
    IF ~lang_ok(it, english_only) THEN FALSE
    ELSE IF allow_parsed # <<>>
            /\ ~(\E k \in DOMAIN allow_parsed : item_matches(it, allow_parsed[k]))
    THEN FALSE
    ELSE IF deny_parsed # <<>>
            /\ (\E k \in DOMAIN deny_parsed : item_matches(it, deny_parsed[k]))
    THEN FALSE
    ELSE TRUE

RECURSIVE ApplyLoop(_, _, _, _)
ApplyLoop(its, english_only, allow_parsed, deny_parsed) ==
    IF its = <<>> THEN <<>>
    ELSE (IF Passes(Head(its), english_only, allow_parsed, deny_parsed)
          THEN <<Head(its)>> ELSE <<>>)
         \o ApplyLoop(Tail(its), english_only, allow_parsed, deny_parsed)

apply_lists(its, english_only, allow, deny) ==
    ApplyLoop(its, english_only,
              [k \in DOMAIN allow |-> parse_rule(allow[k])],
              [k \in DOMAIN deny |-> parse_rule(deny[k])])

(***************************************************************************)
(* Inputs of the filter stage                                              *)
(***************************************************************************)
MaxItems == 2

\* all lists of at most n elements of S
SeqsUpTo(S, n) == UNION {[1..m -> S] : m \in 0..n}

A1(k, v) == k :> v
A2(k1, v1, k2, v2) == (k1 :> v1) @@ (k2 :> v2)
A3(k1, v1, k2, v2, k3, v3) == (k1 :> v1) @@ (k2 :> v2) @@ (k3 :> v3)

NoUrl == <<>>

FilterEntries ==
    { Item(A3(TVG_ID, <<"a">>, TVG_NAME, <<"b">>, TVG_LANGUAGE, <<"e","n">>), <<"d">>, NoUrl),
      Item(A2(TVG_ID, <<"A","c">>, TVG_LANGUAGE, <<"f","r">>), <<"b">>, NoUrl),
      Item(A2(TVG_ID, <<"c","a">>, TVG_LANGUAGE, <<" ">>), <<"D"," ">>, NoUrl),
      Item(A2(GROUP_TITLE, <<"a","b">>, TVG_LANGUAGE, <<"f","r",";"," ","E","N","G">>), <<>>, NoUrl),
      Item(A1(TVG_LANGUAGE, <<"e",",","n">>), <<"a","|","b">>, NoUrl),
      Item(A2(TVG_NAME, <<"x">>, TVG_LANGUAGE, <<>>), <<"c">>, NoUrl),
      Item(NoAttrs, <<"a","c">>, NoUrl) }

File(ls) == [exists |-> TRUE, ls |-> ls]
NoFile == [exists |-> FALSE, ls |-> <<>>]

R_a == <<"a">>
R_bar == <<"|">>
R_ab == <<"a","b">>
R_comment == <<"#"," ","a">>
R_padded == <<" ","A","C"," ">>
R_exact == <<"T","v","g","-","i","d","=","A">>
R_display == <<"d","i","s","p","l","a","y","=","d"," ">>
R_noval == <<"t","v","g","-","i","d","=">>
R_regex == <<"t","v","g","-","i","d","~","/","^","C","/">>
R_regex_end == <<"d","i","s","p","l","a","y","~","/","b","$","/">>
R_badre == <<"t","v","g","-","i","d","~","/","(","/">>

AllowFiles ==
    { NoFile, File(<<>>), File(<<R_comment, <<>>>>), File(<<R_a>>), File(<<R_bar>>),
      File(<<R_ab, R_comment>>), File(<<R_exact>>), File(<<R_regex, R_display>>),
      File(<<R_badre>>), File(<<R_noval>>) }

DenyFiles ==
    { NoFile, File(<<R_a>>), File(<<R_padded>>), File(<<R_regex_end>>),
      File(<<R_exact, R_badre>>), File(<<R_bar>>) }

(***************************************************************************)
(* The filter stage of main(): read_rules twice, then apply_lists          *)
(***************************************************************************)
InitFilter ==
    /\ pc = "start"
    /\ ENGLISH_ONLY \in BOOLEAN
    /\ allow_file \in AllowFiles
    /\ deny_file \in DenyFiles
    /\ allow_rules = <<>>
    /\ deny_rules = <<>>
    /\ items \in SeqsUpTo(FilterEntries, MaxItems)
    /\ filtered = <<>>
    /\ dedup_key = TVG_ID
    /\ m3u_text = <<>> /\ lines = <<>> /\ i = 0 /\ j = 0 /\ tok_items = <<>>
    /\ lastRead = -1 /\ iters = 0
    /\ m3u_ok = TRUE /\ m3u_lines = <<>> /\ dir_ok = TRUE /\ catalogs = <<>>
    /\ tvg_ids = <<>> /\ fidx = 0 /\ out_lines = <<>> /\ found_ids = {}
    /\ not_found = {} /\ written = <<>> /\ exit_code = Running

ReadAllow ==
    /\ pc = "start"
    /\ allow_rules' = read_rules(allow_file)
    /\ pc' = "allow_read"
    /\ UNCHANGED <<ENGLISH_ONLY, allow_file, deny_file, deny_rules, items,
                   filtered, dedup_key, tokVars, matchVars>>

ReadDeny ==
    /\ pc = "allow_read"
    /\ deny_rules' = read_rules(deny_file)
    /\ pc' = "deny_read"
    /\ UNCHANGED <<ENGLISH_ONLY, allow_file, deny_file, allow_rules, items,
                   filtered, dedup_key, tokVars, matchVars>>

ApplyLists ==
    /\ pc = "deny_read"
    /\ filtered' = apply_lists(items, ENGLISH_ONLY, allow_rules, deny_rules)
    /\ pc' = "filtered"
    /\ UNCHANGED <<ENGLISH_ONLY, allow_file, deny_file, allow_rules, deny_rules,
                   items, dedup_key, tokVars, matchVars>>

NextFilter == ReadAllow \/ ReadDeny \/ ApplyLists

SpecFilter == InitFilter /\ [][NextFilter]_vars

(***************************************************************************)
(* Claims about the filter stage                                           *)
(***************************************************************************)
InSeq(x, s) == \E k \in DOMAIN s : s[k] = x

\* out is the list of the elements of inp at the positions K, in input order
IsSelection(out, inp, K) ==
    /\ Len(out) = Cardinality(K)
    /\ \A n \in DOMAIN out :
          \E k \in K : out[n] = inp[k] /\ Cardinality({m \in K : m < k}) = n - 1

MatchesAny(it, rules) ==
    \E k \in DOMAIN rules : item_matches(it, parse_rule(rules[k]))

Gate(it) ==
    /\ lang_ok(it, ENGLISH_ONLY)
    /\ allow_rules = <<>> \/ MatchesAny(it, allow_rules)
    /\ ~MatchesAny(it, deny_rules)

\* C1: apply_lists keeps exactly the entries that pass the language gate, match
\* an allow rule when there are allow rules, and match no deny rule; each entry
\* is judged on its own and the kept entries stay in input order.
C1_ApplyListsGates ==
    pc = "filtered" =>
        IsSelection(filtered, items, {k \in DOMAIN items : Gate(items[k])})

\* C1 witness: with allow and deny rules present, an entry that matches both
\* an allow rule and a deny rule was dropped and a later entry was kept.
C1_Witness ==
    /\ pc = "filtered" /\ allow_rules # <<>> /\ deny_rules # <<>>
    /\ Len(items) = 2 /\ Len(filtered) = 1 /\ filtered[1] = items[2]
    /\ lang_ok(items[1], ENGLISH_ONLY)
    /\ MatchesAny(items[1], allow_rules) /\ MatchesAny(items[1], deny_rules)

\* the tvg-language field is blank: absent, empty or only whitespace
LangBlank(it) ==
    TVG_LANGUAGE \notin DOMAIN it.attrs \/ Strip(it.attrs[TVG_LANGUAGE]) = <<>>

\* some piece of tvg-language between the separators ; , / | is an allowed
\* language, compared after trimming and lowercasing
LangAllowed(it) ==
    LET pieces == SplitOn(Get(it.attrs, TVG_LANGUAGE), LangSeps)
    IN \E k \in DOMAIN pieces : norm(pieces[k]) \in ALLOWED_LANGS

\* C2: with no allow or deny rules, an entry is kept if and only if language
\* filtering is off, or its tvg-language holds an allowed language, or the
\* field is blank (absent, empty or only whitespace).
C2_LangGate ==
    (pc = "filtered" /\ allow_rules = <<>> /\ deny_rules = <<>>) =>
        \A k \in DOMAIN items :
            InSeq(items[k], filtered)
                <=> (~ENGLISH_ONLY \/ LangAllowed(items[k]) \/ LangBlank(items[k]))

IsSubstrRule(r) == ~IsExactRule(r) /\ ~IsRegexRule(r)

\* the four fields a substring rule searches
Fields(it) ==
    <<Get(it.attrs, TVG_ID), Get(it.attrs, TVG_NAME),
      Get(it.attrs, GROUP_TITLE), it.display>>

\* Only substring rules are allowed, nothing is denied, no language filter
OnlySubstrAllow ==
    /\ pc = "filtered" /\ ~ENGLISH_ONLY /\ deny_rules = <<>> /\ allow_rules # <<>>
    /\ \A k \in DOMAIN allow_rules : IsSubstrRule(allow_rules[k])

PREFER_HTTPS == TRUE
PREFER_M3U8 == TRUE

S_https == <<"h","t","t","p","s",":","/","/">>
S_http == <<"h","t","t","p",":","/","/">>
S_m3u8 == <<".","m","3","u","8">>
S_ts == <<".","t","s">>

\* prefer.key
prefer_key(it) ==
    Lower(Or(Or(Get(it.attrs, TVG_ID), Get(it.attrs, TVG_NAME)), it.display))

\* mutant of score: the two preferences weigh the same
score_flat(u) ==
    (IF PREFER_HTTPS /\ StartsWith(Lower(u), S_https) THEN 1 ELSE 0)
    + (IF PREFER_M3U8 /\ EndsWith(Lower(u), S_m3u8) THEN 1 ELSE 0)

\* prefer.score
score(u) ==
    (IF PREFER_HTTPS /\ StartsWith(Lower(u), S_https) THEN 2 ELSE 0)
    + (IF PREFER_M3U8 /\ EndsWith(Lower(u), S_m3u8) THEN 1 ELSE 0)

\* the keys of the buckets dict, in insertion order
RECURSIVE BucketKeys(_, _)
BucketKeys(its, seen) ==
    IF its = <<>> THEN <<>>
    ELSE IF prefer_key(Head(its)) \in seen THEN BucketKeys(Tail(its), seen)
    ELSE <<prefer_key(Head(its))>>
         \o BucketKeys(Tail(its), seen \cup {prefer_key(Head(its))})

\* buckets[key]: the entries with that key, in input order
RECURSIVE Bucket(_, _)
Bucket(its, key) ==
    IF its = <<>> THEN <<>>
    ELSE (IF prefer_key(Head(its)) = key THEN <<Head(its)>> ELSE <<>>)
         \o Bucket(Tail(its), key)

\* max(lst, key=...): the running best is replaced only by a strictly larger one
RECURSIVE MaxBy(_, _)
MaxBy(lst, best) ==
    IF lst = <<>> THEN best
    ELSE IF score(Or(Head(lst).url, <<>>)) > score(Or(best.url, <<>>))
    THEN MaxBy(Tail(lst), Head(lst))
    ELSE MaxBy(Tail(lst), best)

prefer(its) ==
    LET keys == BucketKeys(its, {})
    IN [n \in DOMAIN keys |->
           LET lst == Bucket(its, keys[n]) IN MaxBy(Tail(lst), Head(lst))]

\* mutant of dedup_k: the key is lowercased but not trimmed
dedup_k_untrimmed(it, key) ==
    LET val == Or(Get(it.attrs, key), IF key = TVG_NAME THEN it.display ELSE <<>>)
        k == Lower(val)
    IN IF k = <<>> THEN Lower(it.display) ELSE k

\* the key dedup computes for an entry
dedup_k(it, key) ==
    LET val == Or(Get(it.attrs, key), IF key = TVG_NAME THEN it.display ELSE <<>>)
        k == norm(val)
    IN IF k = <<>> THEN norm(it.display) ELSE k

RECURSIVE DedupLoop(_, _, _)
DedupLoop(its, key, seen) ==
    IF its = <<>> THEN <<>>
    ELSE IF dedup_k(Head(its), key) \in seen THEN DedupLoop(Tail(its), key, seen)
    ELSE <<Head(its)>>
         \o DedupLoop(Tail(its), key, seen \cup {dedup_k(Head(its), key)})

dedup(its, key) ==
    LET k1 == IF key \notin {TVG_ID, TVG_NAME, NONE} THEN TVG_ID ELSE key
    IN IF k1 = NONE THEN its ELSE DedupLoop(its, k1, {})

(***************************************************************************)
(* The prefer and dedup stages of main()                                   *)
(***************************************************************************)
MaxDedupItems == 3

Url(scheme, ext) == scheme \o <<"x">> \o ext

DedupEntries ==
    { Item(A2(TVG_ID, <<"a">>, TVG_NAME, <<"n">>), <<"d">>, Url(S_http, S_ts)),
      Item(A1(TVG_ID, <<"A">>), <<"e">>, Url(S_https, S_m3u8)),
      Item(A2(TVG_ID, <<"a">>, TVG_NAME, <<"N"," ">>), <<"d">>,
           Url(<<"H","T","T","P","S",":","/","/">>, <<".","M","3","U","8">>)),
      Item(A1(TVG_ID, <<" ">>), <<"a">>, Url(S_http, S_m3u8)),
      Item(A1(TVG_ID, <<" ">>), <<"b">>, Url(S_https, S_ts)),
      Item(A1(TVG_NAME, <<"n">>), <<"A"," ">>, <<>>),
      Item(NoAttrs, <<"N">>, Url(S_http, S_m3u8) \o <<"?">>),
      Item(A1(TVG_ID, <<>>), <<>>, Url(S_https, S_ts)) }

DedupKeys == {TVG_ID, TVG_NAME, NONE, <<"i","d">>}

InitDedup ==
    /\ pc = "start"
    /\ ENGLISH_ONLY = TRUE
    /\ allow_file = NoFile /\ deny_file = NoFile
    /\ allow_rules = <<>> /\ deny_rules = <<>>
    /\ items \in SeqsUpTo(DedupEntries, MaxDedupItems)
    /\ filtered = <<>>
    /\ dedup_key \in DedupKeys
    /\ m3u_text = <<>> /\ lines = <<>> /\ i = 0 /\ j = 0 /\ tok_items = <<>>
    /\ lastRead = -1 /\ iters = 0
    /\ m3u_ok = TRUE /\ m3u_lines = <<>> /\ dir_ok = TRUE /\ catalogs = <<>>
    /\ tvg_ids = <<>> /\ fidx = 0 /\ out_lines = <<>> /\ found_ids = {}
    /\ not_found = {} /\ written = <<>> /\ exit_code = Running

\* filtered = prefer(filtered)
Prefer ==
    /\ pc = "start"
    /\ filtered' = prefer(items)
    /\ pc' = "preferred"
    /\ UNCHANGED <<ENGLISH_ONLY, allow_file, deny_file, allow_rules, deny_rules,
                   items, dedup_key, tokVars, matchVars>>

\* filtered = dedup(filtered, args.dedup); items keeps the list dedup was given
Dedup ==
    /\ pc = "preferred"
    /\ items' = filtered
    /\ filtered' = dedup(filtered, dedup_key)
    /\ pc' = "deduped"
    /\ UNCHANGED <<ENGLISH_ONLY, allow_file, deny_file, allow_rules, deny_rules,
                   dedup_key, tokVars, matchVars>>

\* dedup called on a list that prefer has not reduced
DedupAlone ==
    /\ pc = "start"
    /\ filtered' = dedup(items, dedup_key)
    /\ pc' = "deduped"
    /\ UNCHANGED <<ENGLISH_ONLY, allow_file, deny_file, allow_rules, deny_rules,
                   items, dedup_key, tokVars, matchVars>>

NextDedup == Prefer \/ Dedup \/ DedupAlone

SpecDedup == InitDedup /\ [][NextDedup]_vars

(***************************************************************************)
(* Claims about prefer and dedup                                           *)
(***************************************************************************)
HttpsCI(u) == Len(u) >= 8 /\ Lower(SubSeq(u, 1, 8)) = S_https
M3u8CI(u) == Len(u) >= 5 /\ Lower(SubSeq(u, Len(u) - 4, Len(u))) = S_m3u8
UrlScore(u) ==
    CASE HttpsCI(u) /\ M3u8CI(u) -> 3
      [] HttpsCI(u) /\ ~M3u8CI(u) -> 2
      [] ~HttpsCI(u) /\ M3u8CI(u) -> 1
      [] OTHER -> 0

\* the lowercased grouping key: tvg-id, else tvg-name, else the display name
GroupKey(it) ==
    LET has(a) == a \in DOMAIN it.attrs /\ it.attrs[a] # <<>>
    IN IF has(TVG_ID) THEN Lower(it.attrs[TVG_ID])
       ELSE IF has(TVG_NAME) THEN Lower(it.attrs[TVG_NAME])
       ELSE Lower(it.display)

\* the position in items of the entry its group must yield: the first of
\* those with the highest URL score
Winner(g) ==
    LET G == {k \in DOMAIN items : GroupKey(items[k]) = g}
    IN CHOOSE k \in G :
          /\ \A m \in G : UrlScore(items[m].url) <= UrlScore(items[k].url)
          /\ \A m \in G : m < k => UrlScore(items[m].url) < UrlScore(items[k].url)

\* C3: prefer outputs exactly one entry per group of the lowercased key, and
\* it is, unchanged, the first entry of the group with the highest URL score.
C3_PreferBestPerGroup ==
    pc = "preferred" =>
        LET groups == {GroupKey(items[k]) : k \in DOMAIN items}
        IN /\ Len(filtered) = Cardinality(groups)
           /\ \A g \in groups :
                 \E n \in DOMAIN filtered :
                    /\ filtered[n] = items[Winner(g)]
                    /\ \A m \in DOMAIN filtered :
                          GroupKey(filtered[m]) = g => m = n

\* C3 witness: a group of three entries in which a later entry outscores the
\* first and ties with the third; the later one, not the third, was output.
C3_Witness ==
    /\ pc = "preferred" /\ Len(items) = 3 /\ Len(filtered) = 1
    /\ UrlScore(items[1].url) < UrlScore(items[2].url)
    /\ UrlScore(items[2].url) = UrlScore(items[3].url)
    /\ items[2] # items[3]
    /\ filtered[1] = items[2]

\* the positions of the first entry of each distinct key
FirstOfKey(K(_)) ==
    {k \in DOMAIN items : \A m \in 1..(k - 1) : K(items[m]) # K(items[k])}

\* the key argument dedup works with (tvg-id or tvg-name)
KeyAttr == IF dedup_key = TVG_NAME THEN TVG_NAME ELSE TVG_ID

\* the key as C4 words it: the normalized attribute, the normalized display
\* name when the attribute is missing or empty
KeyIfMissingOrEmpty(it) ==
    IF KeyAttr \in DOMAIN it.attrs /\ it.attrs[KeyAttr] # <<>>
    THEN norm(it.attrs[KeyAttr]) ELSE norm(it.display)

\* the key with the fallback taken whenever the normalized attribute is
\* empty: missing, empty or only whitespace
KeyIfBlank(it) ==
    IF norm(Get(it.attrs, KeyAttr)) # <<>>
    THEN norm(it.attrs[KeyAttr]) ELSE norm(it.display)

\* C4 as stated: dedup by tvg-id or tvg-name outputs the first entry of
\* each key, the key falling back to the display name when the attribute is
\* missing or empty; dedup by none returns the list unchanged.
C4_DedupMissingOrEmpty ==
    pc = "deduped" /\ dedup_key \in {TVG_ID, TVG_NAME, NONE} =>
        IF dedup_key = NONE THEN filtered = items
        ELSE IsSelection(filtered, items, FirstOfKey(KeyIfMissingOrEmpty))

\* C4 amended: the same, the key falling back to the display name when the
\* attribute is missing, empty or only whitespace.
C4_DedupBlank ==
    pc = "deduped" /\ dedup_key \in {TVG_ID, TVG_NAME, NONE} =>
        IF dedup_key = NONE THEN filtered = items
        ELSE /\ IsSelection(filtered, items, FirstOfKey(KeyIfBlank))
             /\ \A m, n \in DOMAIN filtered :
                   KeyIfBlank(filtered[m]) = KeyIfBlank(filtered[n]) => m = n
             /\ \A k \in DOMAIN items : \E n \in DOMAIN filtered :
                   KeyIfBlank(filtered[n]) = KeyIfBlank(items[k])

\* C4 witness: dedup by tvg-id dropped a later entry whose tvg-id differs
\* from the first only in case, and kept an entry with another key.
C4_Witness ==
    /\ pc = "deduped" /\ dedup_key = TVG_ID
    /\ Len(items) = 3 /\ Len(filtered) = 2
    /\ filtered[1] = items[1] /\ filtered[2] = items[3]
    /\ Get(items[1].attrs, TVG_ID) # Get(items[2].attrs, TVG_ID)
    /\ KeyIfBlank(items[1]) = KeyIfBlank(items[2])

(***************************************************************************)
(* filter_us_iptv.py: tokenize_m3u                                         *)
(***************************************************************************)
S_EXTINF == <<"#","E","X","T","I","N","F">>
S_EXTM3U == <<"#","E","X","T","M","3","U">>
NL == "\n"
QUOTE == "\""

\* [ln for ln in m3u_text.splitlines() if ln.strip()]
RECURSIVE NonBlank(_)
NonBlank(ls) ==
    IF ls = <<>> THEN <<>>
    ELSE (IF Strip(Head(ls)) # <<>> THEN <<Head(ls)>> ELSE <<>>) \o NonBlank(Tail(ls))

SplitLines(text) == SplitOn(text, {NL, "\r"})

\* length of the longest run of [^ ] that starts at 1-based position p
RECURSIVE NonBlankRun(_, _)
NonBlankRun(s, p) ==
    IF p > Len(s) \/ s[p] = " " THEN 0 ELSE 1 + NonBlankRun(s, p + 1)

\* length of the longest run of \s that starts at 1-based position p
RECURSIVE SpaceRun(_, _)
SpaceRun(s, p) ==
    IF p > Len(s) \/ ~IsSpace(s[p]) THEN 0 ELSE 1 + SpaceRun(s, p + 1)

HasAfter(s, q, c) == \E k \in (q + 1)..Len(s) : s[k] = c
FirstAfter(s, q, c) ==
    CHOOSE k \in (q + 1)..Len(s) : s[k] = c /\ \A m \in (q + 1)..(k - 1) : s[m] # c

\* re.match(r'^#EXTINF:[^ ]*\s*(?P<attrs>.*?),(?P<name>.*)$', ext): the
\* greedy [^ ]* takes a characters and the greedy \s* takes w, the longest
\* choices first; attrs then runs lazily to the first comma that follows.
ExtMatch(ext) ==
    LET P0 == Len(S_EXTINF) + 1
        ok == StartsWith(ext, S_EXTINF \o <<":">>)
        Cands == IF ~ok THEN {}
                 ELSE {x \in (0..Len(ext)) \X (0..Len(ext)) :
                          /\ x[1] <= NonBlankRun(ext, P0 + 1)
                          /\ x[2] <= SpaceRun(ext, P0 + x[1] + 1)
                          /\ HasAfter(ext, P0 + x[1] + x[2], ",")}
    IN IF Cands = {} THEN [matched |-> FALSE, attrs |-> <<>>, name |-> <<>>]
       ELSE LET best == CHOOSE x \in Cands : \A y \in Cands :
                            y[1] < x[1] \/ (y[1] = x[1] /\ y[2] <= x[2])
                q == P0 + best[1] + best[2]
                c == FirstAfter(ext, q, ",")
            IN [matched |-> TRUE, attrs |-> SubSeq(ext, q + 1, c - 1),
                name |-> SubSeq(ext, c + 1, Len(ext))]

\* re.findall(r'([A-Za-z0-9\-]+)="([^"]*)"', attrs_text), from position p
RECURSIVE FindPairs(_, _)
FindPairs(s, p) ==
    IF p > Len(s) THEN <<>>
    ELSE LET n == KeyRun(s, p)
         IN IF /\ n >= 1 /\ p + n + 1 <= Len(s)
               /\ s[p + n] = "=" /\ s[p + n + 1] = QUOTE
               /\ HasAfter(s, p + n + 1, QUOTE)
            THEN LET c == FirstAfter(s, p + n + 1, QUOTE)
                 IN <<[key |-> SubSeq(s, p, p + n - 1),
                       val |-> SubSeq(s, p + n + 2, c - 1)]>>
                    \o FindPairs(s, c + 1)
            ELSE FindPairs(s, p + 1)

\* attrs[key.lower()] = val, in order: a later pair overwrites an earlier one
RECURSIVE AttrsOf(_)
AttrsOf(pairs) ==
    IF pairs = <<>> THEN NoAttrs
    ELSE LET last == pairs[Len(pairs)]
         IN (Lower(last.key) :> last.val) @@ AttrsOf(SubSeq(pairs, 1, Len(pairs) - 1))

\* attrs and display of one #EXTINF line
ParseExtinf(ext) ==
    LET m == ExtMatch(ext)
        attrs_text == IF m.matched THEN m.attrs ELSE <<>>
        display == Strip(IF m.matched THEN Strip(m.name) ELSE <<>>)
    IN [attrs |-> AttrsOf(FindPairs(attrs_text, 1)), display |-> display]

\* mutant of UrlScan: the line after #EXTINF is taken as the URL as it is
UrlScanNoSkip(ls, jj) == FALSE

\* the inner loop's condition: j < len(lines) and lines[j].startswith("#")
UrlScan(ls, jj) == jj < Len(ls) /\ StartsWith(ls[jj + 1], <<"#">>)

Max(a, b) == IF a >= b THEN a ELSE b

\* lines = [...]; i = 0
TokStart ==
    /\ pc = "tok_start"
    /\ lines' = NonBlank(SplitLines(m3u_text))
    /\ i' = 0 /\ j' = 0 /\ tok_items' = <<>> /\ lastRead' = -1 /\ iters' = 0
    /\ pc' = "scan"
    /\ UNCHANGED <<m3u_text, filterVars, matchVars>>

\* lines[i] is not a metadata line: i += 1
TokSkip ==
    /\ pc = "scan" /\ i < Len(lines)
    /\ ~StartsWith(lines[i + 1], S_EXTINF)
    /\ i' = i + 1
    /\ lastRead' = Max(lastRead, i) /\ iters' = iters + 1
    /\ UNCHANGED <<pc, m3u_text, lines, j, tok_items, filterVars, matchVars>>

\* lines[i] is a metadata line: j = i + 1
TokExt ==
    /\ pc = "scan" /\ i < Len(lines)
    /\ StartsWith(lines[i + 1], S_EXTINF)
    /\ j' = i + 1
    /\ lastRead' = Max(lastRead, i) /\ iters' = iters + 1
    /\ pc' = "url"
    /\ UNCHANGED <<m3u_text, lines, i, tok_items, filterVars, matchVars>>

\* lines[j] is a comment: j += 1
TokUrlSkip ==
    /\ pc = "url" /\ UrlScan(lines, j)
    /\ j' = j + 1
    /\ lastRead' = Max(lastRead, j)
    /\ UNCHANGED <<pc, m3u_text, lines, i, tok_items, iters, filterVars, matchVars>>

\* the inner loop has ended: take the URL, parse the metadata, append, i = j + 1
TokEmit ==
    /\ pc = "url" /\ ~UrlScan(lines, j)
    /\ LET url == IF j < Len(lines) THEN Strip(lines[j + 1]) ELSE <<>>
           meta == ParseExtinf(lines[i + 1])
       IN tok_items' = Append(tok_items, Item(meta.attrs, meta.display, url))
    /\ lastRead' = IF j < Len(lines) THEN Max(lastRead, j) ELSE lastRead
    /\ i' = j + 1
    /\ pc' = "scan"
    /\ UNCHANGED <<m3u_text, lines, j, iters, filterVars, matchVars>>

\* while i < len(lines) fails: return items
TokDone ==
    /\ pc = "scan" /\ i >= Len(lines)
    /\ pc' = "tokenized"
    /\ UNCHANGED <<m3u_text, lines, i, j, tok_items, lastRead, iters,
                   filterVars, matchVars>>

NextTok == TokStart \/ TokSkip \/ TokExt \/ TokUrlSkip \/ TokEmit \/ TokDone

(***************************************************************************)
(* Inputs of the tokenizer                                                 *)
(***************************************************************************)
MaxLines == 4

L_header == S_EXTM3U
L_blank == <<" ">>
\* #EXTINF:-1 tvg-id="a",A
L_ext == S_EXTINF \o <<":","-","1"," ">> \o TVG_ID \o <<"=",QUOTE,"a",QUOTE,",","A">>
\* #EXTINF:0 tvg-id="x,y",B
L_ext_comma ==
    S_EXTINF \o <<":","0"," ">> \o TVG_ID \o <<"=",QUOTE,"x",",","y",QUOTE,",","B">>
\* #EXTINF   (no match)
L_ext_bad == S_EXTINF
L_url == <<"u">>
L_url_pad == <<" ","v"," ">>

TokLines == {L_header, L_blank, L_ext, L_ext_comma, L_ext_bad, L_url, L_url_pad}

InitTok ==
    /\ pc = "tok_start"
    /\ \E ls \in SeqsUpTo(TokLines, MaxLines) : m3u_text = Join(ls, <<NL>>)
    /\ lines = <<>> /\ i = 0 /\ j = 0 /\ tok_items = <<>>
    /\ lastRead = -1 /\ iters = 0
    /\ ENGLISH_ONLY = TRUE
    /\ allow_file = NoFile /\ deny_file = NoFile
    /\ allow_rules = <<>> /\ deny_rules = <<>>
    /\ items = <<>> /\ filtered = <<>> /\ dedup_key = TVG_ID
    /\ m3u_ok = TRUE /\ m3u_lines = <<>> /\ dir_ok = TRUE /\ catalogs = <<>>
    /\ tvg_ids = <<>> /\ fidx = 0 /\ out_lines = <<>> /\ found_ids = {}
    /\ not_found = {} /\ written = <<>> /\ exit_code = Running

SpecTok == InitTok /\ [][NextTok]_vars

(***************************************************************************)
(* Claims about tokenize_m3u                                               *)
(***************************************************************************)
IsBlankLine(l) == Strip(l) = <<>>
IsExtLine(l) == StartsWith(l, S_EXTINF)
IsCommentLine(l) == StartsWith(l, <<"#">>) /\ ~IsExtLine(l)
IsUrlLine(l) == ~IsBlankLine(l) /\ ~StartsWith(l, <<"#">>)

\* every #EXTINF line is followed, after comment and blank lines only, by a
\* URL line, and URL lines occur nowhere else
RECURSIVE WellFormedFrom(_, _)
WellFormedFrom(ls, inEntry) ==
    IF ls = <<>> THEN ~inEntry
    ELSE IF IsBlankLine(Head(ls)) \/ IsCommentLine(Head(ls))
    THEN WellFormedFrom(Tail(ls), inEntry)
    ELSE IF IsExtLine(Head(ls)) THEN ~inEntry /\ WellFormedFrom(Tail(ls), TRUE)
    ELSE inEntry /\ WellFormedFrom(Tail(ls), FALSE)

WellFormed(text) == WellFormedFrom(SplitLines(text), FALSE)

\* the k-th metadata line paired with the k-th URL line
ExpectedItems(text) ==
    LET raw == SplitLines(text)
        exts == SelectSeq(raw, IsExtLine)
        urls == SelectSeq(raw, IsUrlLine)
    IN [k \in DOMAIN exts |->
           Item(ParseExtinf(exts[k]).attrs, ParseExtinf(exts[k]).display,
                Strip(urls[k]))]

\* what holds in every state of the scan
TokBounds ==
    /\ lastRead < Len(lines) \/ (lastRead = -1 /\ lines = <<>>)
    /\ i <= Len(lines) + 1 /\ j <= Len(lines) /\ iters <= Len(lines)
    /\ pc = "url" => i < j

\* a step of the loop moves an index forward or ends the scan
TokProgress ==
    pc \in {"scan", "url"} => ((i' + j' > i + j) \/ (pc' = "tokenized"))

\* C6: the scan never reads past the last line, every step of the loop moves
\* an index forward within its bound or ends the scan (so the loop ends),
\* and a text of N well-formed entries yields exactly N items, the k-th with
\* the metadata and URL of the k-th entry.
C6_TokenizeWellFormed ==
    /\ [](TokBounds
          /\ ((pc = "tokenized" /\ WellFormed(m3u_text))
                 => tok_items = ExpectedItems(m3u_text)))
    /\ [][TokProgress]_vars

\* C6 witness: a well-formed text of two different entries has been tokenized
C6_Witness ==
    /\ pc = "tokenized" /\ WellFormed(m3u_text)
    /\ Len(tok_items) = 2 /\ tok_items[1] # tok_items[2]
    /\ tok_items[1].url # <<>>

\* the commas of a metadata line that are outside quoted attribute values
TopCommas(ext) ==
    {c \in DOMAIN ext :
        /\ ext[c] = ","
        /\ Cardinality({q \in 1..(c - 1) : ext[q] = QUOTE}) % 2 = 0}

LastTopComma(ext) == CHOOSE c \in TopCommas(ext) : \A d \in TopCommas(ext) : d <= c

\* what C10 says a metadata line yields
ClaimedMeta(ext) ==
    IF ~ExtMatch(ext).matched THEN [attrs |-> NoAttrs, display |-> <<>>]
    ELSE [attrs |-> AttrsOf(FindPairs(SubSeq(ext, 1, LastTopComma(ext) - 1), 1)),
          display |-> Strip(SubSeq(ext, LastTopComma(ext) + 1, Len(ext)))]

\* C10: every item carries the display name found after the last top-level
\* comma of its metadata line and every attr="value" pair before that comma;
\* a metadata line that does not match yields no attributes and no name.
C10_ExtinfParse ==
    pc = "tokenized" =>
        LET exts == SelectSeq(lines, IsExtLine)
        IN \A k \in DOMAIN tok_items :
              /\ tok_items[k].attrs = ClaimedMeta(exts[k]).attrs
              /\ tok_items[k].display = ClaimedMeta(exts[k]).display

(***************************************************************************)
(* filter_us_iptv.py: write_m3u, and the round trip through tokenize_m3u   *)
(***************************************************************************)
WrittenKeys == <<TVG_ID, TVG_NAME, TVG_CHNO, TVG_LANGUAGE, TVG_COUNTRY, GROUP_TITLE, TVG_LOGO>>

\* parts: k="v" for each key of WrittenKeys whose value is not empty
RECURSIVE Parts(_, _)
Parts(attrs, keys) ==
    IF keys = <<>> THEN <<>>
    ELSE (IF Get(attrs, Head(keys)) # <<>>
          THEN <<Head(keys) \o <<"=", QUOTE>> \o attrs[Head(keys)] \o <<QUOTE>>>>
          ELSE <<>>)
         \o Parts(attrs, Tail(keys))

RECURSIVE EntryLines(_)
EntryLines(its) ==
    IF its = <<>> THEN <<>>
    ELSE << S_EXTINF \o <<":","-","1"," ">> \o Join(Parts(Head(its).attrs, WrittenKeys), <<" ">>)
               \o <<",">> \o Head(its).display,
            Or(Head(its).url, <<>>) >>
         \o EntryLines(Tail(its))

\* the text write_m3u writes
write_m3u(its) == Join(<<S_EXTM3U>> \o EntryLines(its), <<NL>>)

MaxRoundItems == 2

RoundEntries ==
    { Item(A1(TVG_ID, <<"a">>), <<"A">>, <<"u">>),
      Item(A2(TVG_ID, <<"b">>, TVG_NAME, <<"n">>), <<"B">>, <<>>),
      Item(A2(TVG_ID, <<"c">>, TVG_LOGO, <<"l">>), <<"C",","," ","c">>, <<"v">>),
      Item(NoAttrs, <<"D">>, <<"w">>),
      Item(A1(GROUP_TITLE, <<"g">>), <<"E">>, <<>>) }

InitRound ==
    /\ pc = "write"
    /\ items \in SeqsUpTo(RoundEntries, MaxRoundItems)
    /\ m3u_text = <<>> /\ lines = <<>> /\ i = 0 /\ j = 0 /\ tok_items = <<>>
    /\ lastRead = -1 /\ iters = 0
    /\ ENGLISH_ONLY = TRUE
    /\ allow_file = NoFile /\ deny_file = NoFile
    /\ allow_rules = <<>> /\ deny_rules = <<>>
    /\ filtered = <<>> /\ dedup_key = TVG_ID
    /\ m3u_ok = TRUE /\ m3u_lines = <<>> /\ dir_ok = TRUE /\ catalogs = <<>>
    /\ tvg_ids = <<>> /\ fidx = 0 /\ out_lines = <<>> /\ found_ids = {}
    /\ not_found = {} /\ written = <<>> /\ exit_code = Running

\* write_m3u(items, path); the file is then read back as a playlist
WriteM3u ==
    /\ pc = "write"
    /\ m3u_text' = write_m3u(items)
    /\ pc' = "tok_start"
    /\ UNCHANGED <<lines, i, j, tok_items, lastRead, iters, filterVars, matchVars>>

NextRound == WriteM3u \/ NextTok

SpecRound == InitRound /\ [][NextRound]_vars

Triples(its) ==
    {<<Get(its[k].attrs, TVG_ID), its[k].display, its[k].url>> : k \in DOMAIN its}

\* C5: tokenizing what write_m3u wrote yields the same set of
\* (tvg-id, display, url) triples as the list that was written.
C5_RoundTrip ==
    pc = "tokenized" => Triples(tok_items) = Triples(items)

(***************************************************************************)
(* generate_channels_xml.py                                                *)
(***************************************************************************)
S_tvg_id_eq == TVG_ID \o <<"=", QUOTE>>

\* EXTINF_TVG_ID_RE.search(line): the leftmost tvg-id=" that is followed by
\* one or more characters other than a quote and then a quote
TvgIdMatches(line) ==
    {p \in DOMAIN line :
        /\ p + Len(S_tvg_id_eq) <= Len(line)
        /\ SubSeq(line, p, p + Len(S_tvg_id_eq) - 1) = S_tvg_id_eq
        /\ line[p + Len(S_tvg_id_eq)] # QUOTE
        /\ HasAfter(line, p + Len(S_tvg_id_eq), QUOTE)}

TvgIdGroup(line) ==
    LET p == CHOOSE q \in TvgIdMatches(line) : \A r \in TvgIdMatches(line) : q <= r
        a == p + Len(S_tvg_id_eq)
    IN SubSeq(line, a, FirstAfter(line, a, QUOTE) - 1)

\* the loop over the lines of the playlist: tvg_ids
RECURSIVE IdsOfLines(_)
IdsOfLines(ls) ==
    IF ls = <<>> THEN <<>>
    ELSE (IF StartsWith(Head(ls), S_EXTINF) /\ TvgIdMatches(Head(ls)) # {}
             /\ Strip(TvgIdGroup(Head(ls))) # <<>>
          THEN <<Strip(TvgIdGroup(Head(ls)))>> ELSE <<>>)
         \o IdsOfLines(Tail(ls))

\* de-dupe preserving order
RECURSIVE Uniq(_, _)
Uniq(xs, seen) ==
    IF xs = <<>> THEN <<>>
    ELSE IF Head(xs) \in seen THEN Uniq(Tail(xs), seen)
    ELSE <<Head(xs)>> \o Uniq(Tail(xs), seen \cup {Head(xs)})

read_tvg_ids_from_m3u(ls) == Uniq(IdsOfLines(ls), {})

\* parse_channels_file: the <channel> elements, none for a malformed file
parse_channels_file(file) == IF file.ok THEN file.recs ELSE <<>>

\* xml.sax.saxutils.escape with the two extra entities
EscChar(c) ==
    CASE c = "&" -> <<"&","a","m","p",";">>
      [] c = ">" -> <<"&","g","t",";">>
      [] c = "<" -> <<"&","l","t",";">>
      [] c = QUOTE -> <<"&","q","u","o","t",";">>
      [] c = "'" -> <<"&","a","p","o","s",";">>
      [] OTHER -> <<c>>

RECURSIVE Esc(_)
Esc(v) == IF v = <<>> THEN <<>> ELSE EscChar(Head(v)) \o Esc(Tail(v))

render_channel_line(el) ==
    LET attr(name) == Strip(Get(el.attrib, name))
    IN <<"<","c","h","a","n","n","e","l"," ","s","i","t","e","=",QUOTE>>
       \o Esc(attr("site"))
       \o <<QUOTE," ","l","a","n","g","=",QUOTE>> \o Esc(attr("lang"))
       \o <<QUOTE," ","x","m","l","t","v","_","i","d","=",QUOTE>> \o Esc(attr("xmltv_id"))
       \o <<QUOTE," ","s","i","t","e","_","i","d","=",QUOTE>> \o Esc(attr("site_id"))
       \o <<QUOTE,">">> \o Esc(Strip(el.text))
       \o <<"<","/","c","h","a","n","n","e","l",">">>

\* mutant of ch_matches: the identifiers are compared without regard to case
ch_matches_nocase(ch, ids) ==
    LET xmltv_id == Strip(Get(ch.attrib, "xmltv_id"))
    IN xmltv_id # <<>> /\ Lower(xmltv_id) \in {Lower(x) : x \in ids}

\* collect_matches: xmltv_id and xmltv_id in tvg_ids
ch_matches(ch, ids) ==
    LET xmltv_id == Strip(Get(ch.attrib, "xmltv_id"))
    IN xmltv_id # <<>> /\ xmltv_id \in ids

\* the inner loop of collect_matches over one file: the lines it appends
RECURSIVE ScanLines(_, _)
ScanLines(chs, ids) ==
    IF chs = <<>> THEN <<>>
    ELSE (IF ch_matches(Head(chs), ids) THEN <<render_channel_line(Head(chs))>> ELSE <<>>)
         \o ScanLines(Tail(chs), ids)

\* ... and the identifiers it adds to found_ids
ScanFound(chs, ids) ==
    {Strip(Get(chs[k].attrib, "xmltv_id")) : k \in {m \in DOMAIN chs : ch_matches(chs[m], ids)}}

\* the text write_channels_list_xml writes
channels_list_xml(ls) ==
    <<"<","?","x","m","l",">",NL,"<","c","h","a","n","n","e","l","s",">",NL>>
    \o Join([k \in DOMAIN ls |-> ls[k] \o <<NL>>], <<>>)
    \o <<"<","/","c","h","a","n","n","e","l","s",">",NL>>

(***************************************************************************)
(* main() of generate_channels_xml.py                                      *)
(***************************************************************************)
\* read_tvg_ids_from_m3u raises FileNotFoundError: the run ends, status 1
ReadIdsRaises ==
    /\ pc = "m_start" /\ ~m3u_ok
    /\ pc' = "crashed" /\ exit_code' = {1}
    /\ UNCHANGED <<m3u_ok, m3u_lines, dir_ok, catalogs, tvg_ids, fidx, out_lines,
                   found_ids, not_found, written, filterVars, tokVars>>

\* mutant of ExitNoIds: an empty channel list is written before the exit
ExitNoIdsWrites ==
    /\ pc = "m_start" /\ m3u_ok
    /\ read_tvg_ids_from_m3u(m3u_lines) = <<>>
    /\ written' = Append(written, channels_list_xml(<<>>))
    /\ pc' = "exited" /\ exit_code' = {2}
    /\ UNCHANGED <<m3u_ok, m3u_lines, dir_ok, catalogs, tvg_ids, fidx, out_lines,
                   found_ids, not_found, filterVars, tokVars>>

\* if not tvg_ids: sys.exit(2)
ExitNoIds ==
    /\ pc = "m_start" /\ m3u_ok
    /\ read_tvg_ids_from_m3u(m3u_lines) = <<>>
    /\ pc' = "exited" /\ exit_code' = {2}
    /\ UNCHANGED <<m3u_ok, m3u_lines, dir_ok, catalogs, tvg_ids, fidx, out_lines,
                   found_ids, not_found, written, filterVars, tokVars>>

\* tvg_ids = read_tvg_ids_from_m3u(args.m3u), not empty
ReadIds ==
    /\ pc = "m_start" /\ m3u_ok
    /\ read_tvg_ids_from_m3u(m3u_lines) # <<>>
    /\ tvg_ids' = read_tvg_ids_from_m3u(m3u_lines)
    /\ pc' = "find"
    /\ UNCHANGED <<m3u_ok, m3u_lines, dir_ok, catalogs, fidx, out_lines,
                   found_ids, not_found, written, exit_code, filterVars, tokVars>>

\* find_channels_files raises NotADirectoryError: the run ends, status 1
FindFilesRaises ==
    /\ pc = "find" /\ ~dir_ok
    /\ pc' = "crashed" /\ exit_code' = {1}
    /\ UNCHANGED <<m3u_ok, m3u_lines, dir_ok, catalogs, tvg_ids, fidx, out_lines,
                   found_ids, not_found, written, filterVars, tokVars>>

\* if not files: sys.exit(3)
ExitNoFiles ==
    /\ pc = "find" /\ dir_ok /\ catalogs = <<>>
    /\ pc' = "exited" /\ exit_code' = {3}
    /\ UNCHANGED <<m3u_ok, m3u_lines, dir_ok, catalogs, tvg_ids, fidx, out_lines,
                   found_ids, not_found, written, filterVars, tokVars>>

\* files = find_channels_files(args.epg_dir), not empty
FindFiles ==
    /\ pc = "find" /\ dir_ok /\ catalogs # <<>>
    /\ fidx' = 0 /\ out_lines' = <<>> /\ found_ids' = {}
    /\ pc' = "collect"
    /\ UNCHANGED <<m3u_ok, m3u_lines, dir_ok, catalogs, tvg_ids, not_found,
                   written, exit_code, filterVars, tokVars>>

\* collect_matches: one iteration of  for path in channels_files
ScanFile ==
    /\ pc = "collect" /\ fidx < Len(catalogs)
    /\ LET chs == parse_channels_file(catalogs[fidx + 1])
       IN /\ out_lines' = out_lines \o ScanLines(chs, Range(tvg_ids))
          /\ found_ids' = found_ids \cup ScanFound(chs, Range(tvg_ids))
    /\ fidx' = fidx + 1
    /\ UNCHANGED <<pc, m3u_ok, m3u_lines, dir_ok, catalogs, tvg_ids, not_found,
                   written, exit_code, filterVars, tokVars>>

\* collect_matches: not_found = tvg_ids - found_ids; return
CollectReturn ==
    /\ pc = "collect" /\ fidx = Len(catalogs)
    /\ not_found' = Range(tvg_ids) \ found_ids
    /\ pc' = "write"
    /\ UNCHANGED <<m3u_ok, m3u_lines, dir_ok, catalogs, tvg_ids, fidx, out_lines,
                   found_ids, written, exit_code, filterVars, tokVars>>

\* write_channels_list_xml(lines, args.out)
WriteXml ==
    /\ pc = "write"
    /\ written' = Append(written, channels_list_xml(out_lines))
    /\ pc' = "report"
    /\ UNCHANGED <<m3u_ok, m3u_lines, dir_ok, catalogs, tvg_ids, fidx, out_lines,
                   found_ids, not_found, exit_code, filterVars, tokVars>>

\* the report is printed and main returns: status 0
ExitOk ==
    /\ pc = "report"
    /\ pc' = "exited" /\ exit_code' = {0}
    /\ UNCHANGED <<m3u_ok, m3u_lines, dir_ok, catalogs, tvg_ids, fidx, out_lines,
                   found_ids, not_found, written, filterVars, tokVars>>

NextMatch ==
    \/ ReadIdsRaises \/ ExitNoIds \/ ReadIds
    \/ FindFilesRaises \/ ExitNoFiles \/ FindFiles
    \/ ScanFile \/ CollectReturn \/ WriteXml \/ ExitOk

(***************************************************************************)
(* Inputs of the matcher                                                   *)
(***************************************************************************)
MaxFiles == 2

Ch(site, id, text) ==
    [attrib |-> ("site" :> site) @@ ("lang" :> <<"e","n">>) @@ ("xmltv_id" :> id)
                @@ ("site_id" :> <<"1">>),
     text |-> text]
ChNoId(site, text) ==
    [attrib |-> ("site" :> site) @@ ("lang" :> <<"e","n">>), text |-> text]

Catalog(recs) == [ok |-> TRUE, recs |-> recs]
Malformed == [ok |-> FALSE, recs |-> <<>>]

CatalogFiles ==
    { Malformed,
      Catalog(<<>>),
      Catalog(<<Ch(<<"s">>, <<"a">>, <<"A","&","'">>), Ch(<<"s">>, <<"c">>, <<"C">>)>>),
      Catalog(<<Ch(<<"t">>, <<" ","a"," ">>, <<" ","P">>), Ch(<<"t">>, <<"A">>, <<"Q">>)>>),
      Catalog(<<Ch(<<"t">>, <<"b">>, <<"B">>), Ch(<<"t">>, <<"a">>, <<"A">>)>>),
      Catalog(<<Ch(<<"u">>, <<>>, <<"E">>), ChNoId(<<"u">>, <<"F">>)>>) }

\* #EXTINF:0 tvg-id="b",B
M_b == S_EXTINF \o <<":","0"," ">> \o TVG_ID \o <<"=",QUOTE,"b",QUOTE,",","B">>
\* #EXTINF:0 tvg-id=" ",W
M_blank == S_EXTINF \o <<":","0"," ">> \o TVG_ID \o <<"=",QUOTE," ",QUOTE,",","W">>
\* #EXTINF:0 tvg-id="" x-tvg-id="d ",D
M_second ==
    S_EXTINF \o <<":","0"," ">> \o TVG_ID \o <<"=",QUOTE,QUOTE," ","x","-">>
    \o TVG_ID \o <<"=",QUOTE,"d"," ",QUOTE,",","D">>
\* tvg-id="c"     (not a metadata line)
M_stray == TVG_ID \o <<"=",QUOTE,"c",QUOTE>>

Playlists ==
    { <<>>, <<S_EXTM3U, L_url>>, <<M_blank, L_url, M_stray>>,
      <<L_ext, L_url>>, <<L_ext, L_url, M_b, L_url, L_ext>>,
      <<M_second, L_url, M_b>> }

InitMatch ==
    /\ pc = "m_start"
    /\ m3u_ok \in BOOLEAN
    /\ m3u_lines \in IF m3u_ok THEN Playlists ELSE {<<>>}
    /\ dir_ok \in BOOLEAN
    /\ catalogs \in IF dir_ok THEN SeqsUpTo(CatalogFiles, MaxFiles) ELSE {<<>>}
    /\ tvg_ids = <<>> /\ fidx = 0 /\ out_lines = <<>> /\ found_ids = {}
    /\ not_found = {} /\ written = <<>> /\ exit_code = Running
    /\ ENGLISH_ONLY = TRUE
    /\ allow_file = NoFile /\ deny_file = NoFile
    /\ allow_rules = <<>> /\ deny_rules = <<>>
    /\ items = <<>> /\ filtered = <<>> /\ dedup_key = TVG_ID
    /\ m3u_text = <<>> /\ lines = <<>> /\ i = 0 /\ j = 0 /\ tok_items = <<>>
    /\ lastRead = -1 /\ iters = 0

SpecMatch == InitMatch /\ [][NextMatch]_vars

(***************************************************************************)
(* Claims about the matcher                                                *)
(***************************************************************************)
\* the records of the parsable catalogs, in file order then document order
RECURSIVE AllChannels(_)
AllChannels(files) ==
    IF files = <<>> THEN <<>>
    ELSE (IF Head(files).ok THEN Head(files).recs ELSE <<>>) \o AllChannels(Tail(files))

Rendered(chs) == [k \in DOMAIN chs |-> render_channel_line(chs[k])]

Requested == Range(tvg_ids)

\* the xmltv_id attribute as the catalog holds it
RawId(ch) == Get(ch.attrib, "xmltv_id")

Ended == pc \in {"exited", "crashed"}

PcRank ==
    CASE pc = "m_start" -> 0 [] pc = "find" -> 1 [] pc = "collect" -> 2
      [] pc = "write" -> 3 [] pc = "report" -> 4 [] OTHER -> 5

\* how a run that has ended must have ended
Outcome ==
    IF ~m3u_ok THEN exit_code = {1} /\ pc = "crashed" /\ written = <<>>
    ELSE IF read_tvg_ids_from_m3u(m3u_lines) = <<>>
    THEN exit_code = {2} /\ written = <<>>
    ELSE IF ~dir_ok THEN exit_code = {1} /\ pc = "crashed" /\ written = <<>>
    ELSE IF catalogs = <<>> THEN exit_code = {3} /\ written = <<>>
    ELSE exit_code = {0} /\ written = <<channels_list_xml(out_lines)>>

\* every step moves the run forward
MatchProgress ==
    \/ PcRank' > PcRank
    \/ pc' = pc /\ pc = "collect" /\ fidx' = fidx + 1 /\ fidx' <= Len(catalogs)

====
